---- MODULE Spec2Model ----
(***************************************************************************)
(* A model of filecmp-rs: the file comparator cmp() with its process-wide  *)
(* comparison cache, clear_cache(), and the directory classifier           *)
(* DirCmp::new (src/src/lib.rs, src/src/os.rs, src/src/stat.rs).           *)
(***************************************************************************)
EXTENDS Integers, Sequences, FiniteSets, TLC

(***************************************************************************)
(* Bounds of the model.                                                    *)
(*   BUFSIZE         chunk size of do_cmp; lib.rs:28 sets 8 * 1024, the    *)
(*                   model scales it so that the files of Contents span    *)
(*                   several chunks                                        *)
(*   MAX_CACHE_SIZE  cache bound of cmp; lib.rs:30 sets 100, the model     *)
(*                   scales it so that the sweep is reached; every formula *)
(*                   below is stated relative to MAX_CACHE_SIZE            *)
(***************************************************************************)
BUFSIZE == 1
MAX_CACHE_SIZE == 1

Paths == {"a", "b"}
\* st_mtime values: distinct f64 values as os::stat returns them.
Times == {0, 1}
\* file contents: an empty file, and two files of one size that differ in
\* their last byte only
Contents == {<<>>, <<0, 0, 0>>, <<0, 0, 1>>}
\* what the operating system may fail in do_cmp: nothing, the open of the
\* first or second file, the first read of the first or second file
Faults == {"none", "open1", "open2", "read1", "read2"}

Min(x, y) == IF x < y THEN x ELSE y

(***************************************************************************)
(* stat.rs: file type bits.                                                *)
(***************************************************************************)
S_IFIFO == 4096
S_IFDIR == 16384
S_IFREG == 32768
\* mode & 0o170000
S_IFMT(mode) == ((mode \div 4096) % 16) * 4096
S_ISDIR(mode) == S_IFMT(mode) = S_IFDIR
S_ISREG(mode) == S_IFMT(mode) = S_IFREG

(***************************************************************************)
(* The file system the program runs on: per path, either no entry or an    *)
(* entry with its mode, content and modification time.                     *)
(***************************************************************************)
\* 0o100644, 0o040755
RegMode == S_IFREG + 420
DirMode == S_IFDIR + 493
FifoMode == S_IFIFO + 420
File(mode, data, t) == [exists |-> TRUE, st_mode |-> mode, data |-> data, st_mtime |-> t]
Missing == [exists |-> FALSE, st_mode |-> 0, data |-> <<>>, st_mtime |-> 0]
\* Path a is rewritten, touched, replaced by a directory and removed; path b
\* is the reference copy: a regular file that is not empty and is rewritten
\* with its modification time kept.
FileStates(p) ==
    IF p = "a"
    THEN {File(RegMode, d, t) : d \in Contents, t \in Times}
             \cup {File(DirMode, <<>>, 0), Missing}
    ELSE {File(RegMode, d, 0) : d \in Contents \ {<<>>}}

Ok(v) == [ok |-> TRUE, val |-> v]
Err == [ok |-> FALSE, val |-> FALSE]

(***************************************************************************)
(* os.rs: stat (symlinks followed); an I/O error when the path has no      *)
(* entry.                                                                  *)
(***************************************************************************)
stat(disk, path) ==
    IF disk[path].exists
    THEN [ok |-> TRUE,
          st_mode |-> disk[path].st_mode,
          st_size |-> Len(disk[path].data),
          st_mtime |-> disk[path].st_mtime]
    ELSE [ok |-> FALSE, st_mode |-> 0, st_size |-> 0, st_mtime |-> 0]

(***************************************************************************)
(* lib.rs: Signature, its equality and hash (through canonicalize).        *)
(***************************************************************************)
sig(st) ==
    [s_ifmt |-> S_IFMT(st.st_mode), st_size |-> st.st_size, st_mtime |-> st.st_mtime]
\* mutant: the modification time left out of the key and of the equality
canonicalize_no_mtime(s) == <<s.s_ifmt, s.st_size>>
canonicalize(s) == <<s.s_ifmt, s.st_size, s.st_mtime>>
Signature_eq(s1, s2) == canonicalize(s1) = canonicalize(s2)

(***************************************************************************)
(* lib.rs: CACHE, a HashMap keyed by (path, path, Signature, Signature).   *)
(* The map compares and hashes a Signature through canonicalize.           *)
(***************************************************************************)
EmptyCache == [k \in {} |-> FALSE]
CacheKey(f1, f2, s1, s2) == <<f1, f2, canonicalize(s1), canonicalize(s2)>>
CacheGet(c, key) ==
    IF key \in DOMAIN c THEN [some |-> TRUE, val |-> c[key]]
    ELSE [some |-> FALSE, val |-> FALSE]
CacheLen(c) == Cardinality(DOMAIN c)
CacheInsert(c, key, v) == [k \in DOMAIN c \cup {key} |-> IF k = key THEN v ELSE c[k]]
\* mutant: the sweep one entry early
NeedsSweep_ge(c) == CacheLen(c) >= MAX_CACHE_SIZE
\* lib.rs:124: the size check that guards the sweep
NeedsSweep(c) == CacheLen(c) > MAX_CACHE_SIZE

(***************************************************************************)
(* lib.rs: do_cmp.  File::open fails on a missing path or when the         *)
(* operating system fails it; File::read on a regular file fills the       *)
(* buffer up to the end of the file, or fails.  The result counts the open *)
(* and read calls made.                                                    *)
(***************************************************************************)
CanOpen(disk, path) == disk[path].exists
read(data, pos) == SubSeq(data, pos + 1, Min(pos + BUFSIZE, Len(data)))
IoErr(opens, reads) == [ok |-> FALSE, val |-> FALSE, opens |-> opens, reads |-> reads]
Done(val, reads) == [ok |-> TRUE, val |-> val, opens |-> 2, reads |-> reads]

\* mutant: only the first chunk of each file is compared
do_cmp_loop_first_chunk(d1, d2, pos1, pos2, n, fault) ==
    Done(read(d1, pos1) = read(d2, pos2), n + 2)

\* lib.rs:379-394, n the number of read calls made so far
RECURSIVE do_cmp_loop(_, _, _, _, _, _)
do_cmp_loop(d1, d2, pos1, pos2, n, fault) ==
    LET buf1 == read(d1, pos1)
        buf2 == read(d2, pos2)
        len1 == Len(buf1)
        len2 == Len(buf2)
    IN  IF n = 0 /\ fault = "read1" THEN IoErr(2, 1)
        ELSE IF n = 0 /\ fault = "read2" THEN IoErr(2, 2)
        ELSE IF len1 # len2 THEN Done(FALSE, n + 2)
        ELSE IF len1 = 0 THEN Done(TRUE, n + 2)
        ELSE IF buf1 # buf2 THEN Done(FALSE, n + 2)
        ELSE do_cmp_loop(d1, d2, pos1 + len1, pos2 + len2, n + 2, fault)

\* mutant: two files that reach their end together are reported different
do_cmp_eof_differs(disk, f1, f2, fault) ==
    IF ~CanOpen(disk, f1) \/ fault = "open1" THEN IoErr(1, 0)
    ELSE IF ~CanOpen(disk, f2) \/ fault = "open2" THEN IoErr(2, 0)
    ELSE LET r == do_cmp_loop(disk[f1].data, disk[f2].data, 0, 0, 0, fault)
         IN  [r EXCEPT !.val = FALSE]

\* lib.rs:376-395
do_cmp(disk, f1, f2, fault) ==
    IF ~CanOpen(disk, f1) \/ fault = "open1" THEN IoErr(1, 0)
    ELSE IF ~CanOpen(disk, f2) \/ fault = "open2" THEN IoErr(2, 0)
    ELSE do_cmp_loop(disk[f1].data, disk[f2].data, 0, 0, 0, fault)

(***************************************************************************)
(* lib.rs: cmp, as one call running alone.  The result holds the returned  *)
(* value, the cache the call leaves, the key it built (NoKey when it       *)
(* returned before) and what the call did on the way.                      *)
(***************************************************************************)
NoKey == <<"a", "a", <<0, 0, 0>>, <<0, 0, 0>>>>
\* lib.rs:107
NotBothRegular(s1, s2) == s1.s_ifmt # S_IFREG \/ s2.s_ifmt # S_IFREG
\* mutant: the shallow flag inverted
ShallowEqual_inverted(shallow, s1, s2) == ~shallow /\ Signature_eq(s1, s2)
\* lib.rs:110
ShallowEqual(shallow, s1, s2) == shallow /\ Signature_eq(s1, s2)
\* mutant: the modification times compared in place of the sizes
SizeDiffers_mtime(s1, s2) == s1.st_mtime # s2.st_mtime
\* lib.rs:113
SizeDiffers(s1, s2) == s1.st_size # s2.st_size

\* a return before the cache is reached
Early(ret, c) ==
    [ret |-> ret, cache |-> c, key |-> NoKey, opens |-> 0, reads |-> 0,
     lookup |-> FALSE, hit |-> FALSE, swept |-> FALSE, inserted |-> FALSE]

\* lib.rs:124-128: the sweep and the insert after a miss
cache_put(c, key, outcome) ==
    CacheInsert(IF NeedsSweep(c) THEN EmptyCache ELSE c, key, outcome)

\* mutant: the sweep runs before the content comparison
cmp_cached_sweep_first(disk, c, f1, f2, s1, s2, fault) ==
    LET key == CacheKey(f1, f2, s1, s2)
        got == CacheGet(c, key)
        swept == IF NeedsSweep(c) THEN EmptyCache ELSE c
    IN  IF got.some
        THEN [ret |-> Ok(got.val), cache |-> c, key |-> key, opens |-> 0, reads |-> 0,
              lookup |-> TRUE, hit |-> TRUE, swept |-> FALSE, inserted |-> FALSE]
        ELSE LET r == do_cmp(disk, f1, f2, fault)
             IN  IF ~r.ok
                 THEN [ret |-> Err, cache |-> swept, key |-> key,
                       opens |-> r.opens, reads |-> r.reads,
                       lookup |-> TRUE, hit |-> FALSE, swept |-> NeedsSweep(c),
                       inserted |-> FALSE]
                 ELSE [ret |-> Ok(r.val), cache |-> CacheInsert(swept, key, r.val),
                       key |-> key, opens |-> r.opens, reads |-> r.reads,
                       lookup |-> TRUE, hit |-> FALSE, swept |-> NeedsSweep(c),
                       inserted |-> TRUE]

\* lib.rs:117-132
cmp_cached(disk, c, f1, f2, s1, s2, fault) ==
    LET key == CacheKey(f1, f2, s1, s2)
        got == CacheGet(c, key)
    IN  IF got.some
        THEN [ret |-> Ok(got.val), cache |-> c, key |-> key, opens |-> 0, reads |-> 0,
              lookup |-> TRUE, hit |-> TRUE, swept |-> FALSE, inserted |-> FALSE]
        ELSE LET r == do_cmp(disk, f1, f2, fault)
             IN  IF ~r.ok
                 THEN [ret |-> Err, cache |-> c, key |-> key,
                       opens |-> r.opens, reads |-> r.reads,
                       lookup |-> TRUE, hit |-> FALSE, swept |-> FALSE, inserted |-> FALSE]
                 ELSE [ret |-> Ok(r.val), cache |-> cache_put(c, key, r.val), key |-> key,
                       opens |-> r.opens, reads |-> r.reads,
                       lookup |-> TRUE, hit |-> FALSE, swept |-> NeedsSweep(c),
                       inserted |-> TRUE]

\* lib.rs:103-133
cmp(disk, c, f1, f2, shallow, fault) ==
    LET st1 == stat(disk, f1)
        st2 == stat(disk, f2)
        s1 == sig(st1)
        s2 == sig(st2)
    IN  IF ~st1.ok \/ ~st2.ok THEN Early(Err, c)
        ELSE IF NotBothRegular(s1, s2) THEN Early(Ok(FALSE), c)
        ELSE IF ShallowEqual(shallow, s1, s2) THEN Early(Ok(TRUE), c)
        ELSE IF SizeDiffers(s1, s2) THEN Early(Ok(FALSE), c)
        ELSE cmp_cached(disk, c, f1, f2, s1, s2, fault)

(***************************************************************************)
(* State.                                                                  *)
(*   fs     the file system                                                *)
(*   cache  CACHE                                                          *)
(*   last   the last operation of the single-threaded program, with its    *)
(*          arguments, its result and what it did; for DirCmp::new, the    *)
(*          calls of cmp that cmpfiles made, each with its result          *)
(*   seen   per cache entry of the single-threaded program, for the        *)
(*          record: the paths and the stat results of the call that        *)
(*          inserted it, and whether a file has changed signature since    *)
(*   mutex  the thread that holds the Mutex around CACHE, or NoThread      *)
(*   th     per thread of the multi-threaded program: where it is in its   *)
(*          call (pc), the call's key (with the paths f1 and f2) and its   *)
(*          outcome; and, for the record, how many clear_cache calls had   *)
(*          returned when the call started (startEpoch) and when it read   *)
(*          the files (readEpoch)                                          *)
(*   epoch  the number of clear_cache calls that have returned             *)
(*   born   per cache entry, the readEpoch of the call that inserted it    *)
(*   tree   per directory of the directory comparison: whether it can be   *)
(*          listed, and the names of its entries                           *)
(*   dc     the DirCmp that the last call of DirCmp::new built, or the     *)
(*          record of its panic                                            *)
(***************************************************************************)
VARIABLES fs, cache, last, seen, mutex, th, epoch, born, tree, dc

vars == <<fs, cache, last, seen, mutex, th, epoch, born, tree, dc>>
seqVars == <<last, seen>>
concVars == <<mutex, th, epoch, born>>
dirVars == <<tree, dc>>

Threads == {"t1", "t2"}
NoThread == "none"
\* how many times the threads call clear_cache
MaxClears == 1

NoCall ==
    [op |-> "none", f1 |-> "a", f2 |-> "a", shallow |-> FALSE, ret |-> Err,
     opens |-> 0, reads |-> 0, lookup |-> FALSE, hit |-> FALSE, swept |-> FALSE,
     inserted |-> FALSE, lenBefore |-> 0, changed |-> FALSE, src |-> <<>>,
     calls |-> <<>>, fault |-> "none"]

Idle ==
    [pc |-> "idle", key |-> NoKey, outcome |-> FALSE, startEpoch |-> 0, readEpoch |-> 0]

InitFs == fs \in {d \in [Paths -> UNION {FileStates(p) : p \in Paths}] :
                     \A p \in Paths : d[p] \in FileStates(p)}

\* no directories, and no DirCmp yet
NoTree == [d \in {} |-> {}]
NoDirCmp ==
    [status |-> "none", left_list |-> <<>>, right_list |-> <<>>, common |-> <<>>,
     left_only |-> <<>>, right_only |-> <<>>, common_dirs |-> <<>>,
     common_files |-> <<>>, common_funny |-> <<>>, same_files |-> <<>>,
     diff_files |-> <<>>, funny_files |-> <<>>]
InitNoDirs == tree = NoTree /\ dc = NoDirCmp

InitConc ==
    /\ mutex = NoThread
    /\ th = [t \in Threads |-> Idle]
    /\ epoch = 0
    /\ born = EmptyCache

(***************************************************************************)
(* The single-threaded program: every call runs alone, from its first      *)
(* statement to its return.                                                *)
(***************************************************************************)
Init ==
    /\ InitFs
    /\ cache = EmptyCache
    /\ last = NoCall
    /\ seen = EmptyCache
    /\ InitConc
    /\ InitNoDirs

\* what a call of cmp(f1, f2, ..) has seen of its two files; the last
\* component tells whether a file has had another signature since
Observed(f1, f2) == <<f1, f2, stat(fs, f1), stat(fs, f2), FALSE>>
\* the entries of seen, marked where a file no longer has the signature of
\* the key on the file system disk
Outdate(disk) ==
    [k \in DOMAIN seen |->
        IF k[3] = canonicalize(sig(stat(disk, k[1])))
               /\ k[4] = canonicalize(sig(stat(disk, k[2])))
        THEN seen[k] ELSE [seen[k] EXCEPT ![5] = TRUE]]

\* one call of cmp(f1, f2, shallow)
Cmp(f1, f2, shallow, fault) ==
    LET r == cmp(fs, cache, f1, f2, shallow, fault)
    IN  /\ cache' = r.cache
        /\ last' = [op |-> "cmp", f1 |-> f1, f2 |-> f2, shallow |-> shallow,
                    ret |-> r.ret, opens |-> r.opens, reads |-> r.reads,
                    lookup |-> r.lookup, hit |-> r.hit, swept |-> r.swept,
                    inserted |-> r.inserted, lenBefore |-> CacheLen(cache),
                    changed |-> (r.cache # cache),
                    src |-> IF r.hit THEN seen[r.key] ELSE <<>>,
                    calls |-> <<>>, fault |-> fault]
        /\ seen' = IF r.inserted
                   THEN CacheInsert(IF r.swept THEN EmptyCache ELSE seen, r.key,
                                    Observed(f1, f2))
                   ELSE seen
        /\ UNCHANGED <<dirVars, fs, concVars>>

\* lib.rs:50-52
ClearCache ==
    /\ cache' = EmptyCache
    /\ last' = [NoCall EXCEPT !.op = "clear_cache", !.lenBefore = CacheLen(cache)]
    /\ seen' = EmptyCache
    /\ UNCHANGED <<dirVars, fs, concVars>>

\* the environment creates, rewrites, touches, replaces or removes a file
FsMutate(p, st) ==
    /\ st # fs[p]
    /\ fs' = [fs EXCEPT ![p] = st]
    /\ last' = [NoCall EXCEPT !.op = "env"]
    /\ seen' = Outdate(fs')
    /\ UNCHANGED <<dirVars, cache, concVars>>

Next ==
    \/ \E f1 \in Paths, f2 \in Paths, shallow \in BOOLEAN :
           Cmp(f1, f2, shallow, "none")
    \/ ClearCache
    \/ \E p \in Paths : \E st \in FileStates(p) : FsMutate(p, st)

Spec == Init /\ [][Next]_vars

(***************************************************************************)
(* Properties of the single-threaded program.  They speak of the last call *)
(* (last) and of the files as that call found them: a call of cmp leaves   *)
(* fs unchanged.                                                           *)
(***************************************************************************)
LastIsCmp == last.op = "cmp"
IsRegularFile(p) == fs[p].exists /\ (fs[p].st_mode \div 4096) % 16 = 8
SizeOf(p) == Len(fs[p].data)
\* type bits, size and modification time of a stat result
Triple(st) == <<((st.st_mode \div 4096) % 16) * 4096, st.st_size, st.st_mtime>>
SigNow(p) == Triple(stat(fs, p))
BothRegular == LastIsCmp /\ IsRegularFile(last.f1) /\ IsRegularFile(last.f2)
\* the key of the last call: its paths, in order, and their signatures
KeyNow == <<last.f1, last.f2, SigNow(last.f1), SigNow(last.f2)>>
Untouched ==
    /\ last.opens = 0 /\ last.reads = 0
    /\ ~last.lookup /\ ~last.inserted /\ ~last.swept /\ ~last.changed
Chunks(n) == (n + BUFSIZE - 1) \div BUFSIZE

\* C1: a shallow cmp of two regular files with equal signatures (type bits,
\* size, modification time) returns true, opens and reads no file and does
\* not touch the cache, whatever the contents and the cache.
C1_ShallowEqualSignatures ==
    (BothRegular /\ last.shallow /\ SigNow(last.f1) = SigNow(last.f2))
        => (last.ret = Ok(TRUE) /\ Untouched)

\* C1 witness: a shallow cmp returned true for two files of different
\* content while the cache holds false under the call's own key.
C1_Witness ==
    /\ BothRegular /\ last.shallow /\ last.ret = Ok(TRUE)
    /\ SigNow(last.f1) = SigNow(last.f2)
    /\ fs[last.f1].data # fs[last.f2].data
    /\ KeyNow \in DOMAIN cache /\ cache[KeyNow] = FALSE

\* C2: a deep cmp (shallow = false) of two regular files of equal size
\* always reaches the cache: on a hit it returns the value cached under
\* (f1, f2, s1, s2) and reads nothing; on a miss it reads both files chunk
\* by chunk, returns true exactly when the contents are identical, and
\* stores that outcome under (f1, f2, s1, s2).
C2_DeepUsesCacheOrContent ==
    (BothRegular /\ ~last.shallow /\ SizeOf(last.f1) = SizeOf(last.f2))
        => /\ last.lookup
           /\ KeyNow \in DOMAIN cache
           /\ last.ret = Ok(cache[KeyNow])
           /\ last.hit => (~last.changed /\ ~last.inserted
                           /\ last.opens = 0 /\ last.reads = 0)
           /\ ~last.hit =>
                  /\ last.ret = Ok(fs[last.f1].data = fs[last.f2].data)
                  /\ last.inserted /\ last.opens = 2
                  /\ last.reads >= 2
                  /\ last.reads <= 2 * (Chunks(SizeOf(last.f1)) + 1)
                  /\ (fs[last.f1].data = fs[last.f2].data
                          => last.reads = 2 * (Chunks(SizeOf(last.f1)) + 1))

\* C2 witness: a deep cmp of two files with equal signatures and different
\* contents missed, read several chunks, returned false and stored it.
C2_Witness ==
    /\ BothRegular /\ ~last.shallow /\ last.f1 # last.f2
    /\ SigNow(last.f1) = SigNow(last.f2)
    /\ ~last.hit /\ last.inserted /\ last.reads > 2
    /\ last.ret = Ok(FALSE) /\ cache[KeyNow] = FALSE

C4_SweepAfterInsert ==
    /\ CacheLen(cache) <= MAX_CACHE_SIZE
    /\ (LastIsCmp /\ last.inserted /\ last.lenBefore = MAX_CACHE_SIZE)
           => CacheLen(cache) = 0

\* C4 as amended: the sweep precedes the insert.  A miss that finds more
\* than MAX_CACHE_SIZE entries clears the cache and then inserts, leaving
\* one entry; any other miss adds one entry; so the cache holds at most
\* MAX_CACHE_SIZE + 1 entries between calls.
C4_SweepBeforeInsert ==
    /\ CacheLen(cache) <= MAX_CACHE_SIZE + 1
    /\ (LastIsCmp /\ last.inserted /\ last.lenBefore > MAX_CACHE_SIZE)
           => (last.swept /\ CacheLen(cache) = 1 /\ DOMAIN cache = {KeyNow})
    /\ (LastIsCmp /\ last.inserted /\ last.lenBefore <= MAX_CACHE_SIZE)
           => (~last.swept /\ CacheLen(cache) = last.lenBefore + 1)
    /\ (LastIsCmp /\ ~last.inserted) => (~last.swept /\ ~last.changed)

\* C4 witness: a miss found MAX_CACHE_SIZE + 1 entries, swept and inserted.
C4_Witness ==
    /\ LastIsCmp /\ last.swept /\ last.inserted
    /\ last.lenBefore = MAX_CACHE_SIZE + 1
    /\ CacheLen(cache) = 1

\* C7: cmp of two regular files of different sizes returns false, shallow
\* or not, opens and reads no file and leaves the cache as it was: no
\* lookup, no insert, no sweep.
C7_SizeShortCircuit ==
    (BothRegular /\ SizeOf(last.f1) # SizeOf(last.f2))
        => (last.ret = Ok(FALSE) /\ Untouched)

\* C7 witness: a deep cmp of two regular files of different sizes and equal
\* modification times returned false, the cache holding entries.
C7_Witness ==
    /\ BothRegular /\ ~last.shallow /\ SizeOf(last.f1) # SizeOf(last.f2)
    /\ fs[last.f1].st_mtime = fs[last.f2].st_mtime
    /\ last.ret = Ok(FALSE) /\ CacheLen(cache) > 0

\* C8: cmp(f, f, shallow) returns true for every regular file f, both
\* values of shallow, in every cache state.
C8_Reflexive ==
    (BothRegular /\ last.f1 = last.f2) => last.ret = Ok(TRUE)

\* C8 witness: a deep cmp(f, f) hit the cache and returned true.
C8_Witness ==
    /\ BothRegular /\ last.f1 = last.f2 /\ ~last.shallow
    /\ last.hit /\ last.ret = Ok(TRUE)

\* C9: cmp(p, q, shallow) and then cmp(q, p, shallow), with no change of
\* the files in between, return the same result, in every state the
\* program reaches.
C9_Symmetric ==
    \A p \in Paths, q \in Paths, shallow \in BOOLEAN :
        LET first == cmp(fs, cache, p, q, shallow, "none")
            second == cmp(fs, first.cache, q, p, shallow, "none")
        IN  first.ret = second.ret

(***************************************************************************)
(* The multi-threaded program: the threads call cmp and clear_cache        *)
(* concurrently on files that nobody changes meanwhile.  A thread's steps  *)
(* are the statements of lib.rs:117-130; a statement that locks CACHE is   *)
(* two steps, the lock() that waits for the Mutex and the statement under  *)
(* the guard, whose end drops the guard.                                   *)
(*                                                                         *)
(*   pc          statement                                                 *)
(*   get_lock    lib.rs:119  c_cache.lock()                                *)
(*   get         lib.rs:119  .get(&key).copied()                           *)
(*   read        lib.rs:123  do_cmp(f1, f2)?                               *)
(*   len_lock    lib.rs:124  c_cache.lock()                                *)
(*   len         lib.rs:124  .len() > MAX_CACHE_SIZE                       *)
(*   sweep_lock  lib.rs:126  clear_cache(): CACHE.lock()                   *)
(*   sweep       lib.rs:126  clear_cache(): .clear()                       *)
(*   put_lock    lib.rs:128  c_cache.lock()                                *)
(*   put         lib.rs:128  .insert(key, outcome)                         *)
(*   clear_lock  lib.rs:51   CACHE.lock(), in a call of clear_cache        *)
(*   clear       lib.rs:51   .clear()                                      *)
(***************************************************************************)
\* the files of the multi-threaded runs: two equal files with equal
\* signatures, or two files of one size that differ in content and in
\* modification time
ThreadFs ==
    {[p \in Paths |-> File(RegMode, <<0, 0, 0>>, 0)],
     [p \in Paths |-> IF p = "a" THEN File(RegMode, <<0, 0, 1>>, 1)
                                 ELSE File(RegMode, <<0, 0, 0>>, 0)]}

InitThreads ==
    /\ fs \in ThreadFs
    /\ cache = EmptyCache
    /\ last = NoCall
    /\ seen = EmptyCache
    /\ InitConc
    /\ InitNoDirs

Holding(pc) ==
    CASE pc = "get_lock" -> "get"
      [] pc = "len_lock" -> "len"
      [] pc = "sweep_lock" -> "sweep"
      [] pc = "put_lock" -> "put"
      [] pc = "clear_lock" -> "clear"
LockPcs == {"get_lock", "len_lock", "sweep_lock", "put_lock", "clear_lock"}

\* lib.rs:103-117: the call of cmp up to its key; it returns at once when
\* the stat fails, a file is not regular, the shallow test succeeds or the
\* sizes differ
CmpBegin(t, f1, f2, shallow) ==
    LET st1 == stat(fs, f1)
        st2 == stat(fs, f2)
        s1 == sig(st1)
        s2 == sig(st2)
        early == \/ ~st1.ok \/ ~st2.ok
                 \/ NotBothRegular(s1, s2)
                 \/ ShallowEqual(shallow, s1, s2)
                 \/ SizeDiffers(s1, s2)
    IN  /\ th[t].pc = "idle"
        /\ th' = IF early THEN th
                 ELSE [th EXCEPT ![t] = [Idle EXCEPT !.pc = "get_lock",
                                          !.key = CacheKey(f1, f2, s1, s2),
                                          !.startEpoch = epoch]]
        /\ UNCHANGED <<dirVars, fs, cache, seqVars, mutex, epoch, born>>

\* Mutex::lock: waits until no thread holds the Mutex
Lock(t) ==
    /\ th[t].pc \in LockPcs
    /\ mutex = NoThread
    /\ mutex' = t
    /\ th' = [th EXCEPT ![t].pc = Holding(th[t].pc)]
    /\ UNCHANGED <<dirVars, fs, cache, seqVars, epoch, born>>

\* lib.rs:119-121: a hit returns the cached outcome
Get(t) ==
    /\ th[t].pc = "get"
    /\ mutex' = NoThread
    /\ th' = [th EXCEPT ![t] = IF CacheGet(cache, th[t].key).some THEN Idle
                                ELSE [th[t] EXCEPT !.pc = "read"]]
    /\ UNCHANGED <<dirVars, fs, cache, seqVars, epoch, born>>

\* lib.rs:123: the content comparison, outside the lock; an I/O error
\* returns from cmp
Read(t, fault) ==
    LET r == do_cmp(fs, th[t].key[1], th[t].key[2], fault)
    IN  /\ th[t].pc = "read"
        /\ th' = [th EXCEPT ![t] = IF r.ok
                                    THEN [th[t] EXCEPT !.pc = "len_lock",
                                                       !.outcome = r.val,
                                                       !.readEpoch = epoch]
                                    ELSE Idle]
        /\ UNCHANGED <<dirVars, fs, cache, seqVars, mutex, epoch, born>>

\* mutant: the guard of the size check lives to the end of the if block
CheckLen_guard_kept(t) ==
    /\ th[t].pc = "len"
    /\ th' = [th EXCEPT ![t].pc = IF NeedsSweep(cache) THEN "sweep_lock" ELSE "put_lock"]
    /\ UNCHANGED <<dirVars, fs, cache, seqVars, mutex, epoch, born>>

\* lib.rs:124: the guard is dropped at the end of the condition
CheckLen(t) ==
    /\ th[t].pc = "len"
    /\ mutex' = NoThread
    /\ th' = [th EXCEPT ![t].pc = IF NeedsSweep(cache) THEN "sweep_lock" ELSE "put_lock"]
    /\ UNCHANGED <<dirVars, fs, cache, seqVars, epoch, born>>

\* lib.rs:126: the sweep
Sweep(t) ==
    /\ th[t].pc = "sweep"
    /\ cache' = EmptyCache
    /\ born' = EmptyCache
    /\ mutex' = NoThread
    /\ th' = [th EXCEPT ![t].pc = "put_lock"]
    /\ UNCHANGED <<dirVars, fs, seqVars, epoch>>

\* lib.rs:128-132: the insert, and the return of the outcome
Put(t) ==
    /\ th[t].pc = "put"
    /\ cache' = CacheInsert(cache, th[t].key, th[t].outcome)
    /\ born' = CacheInsert(born, th[t].key, th[t].readEpoch)
    /\ mutex' = NoThread
    /\ th' = [th EXCEPT ![t] = Idle]
    /\ UNCHANGED <<dirVars, fs, seqVars, epoch>>

\* lib.rs:50: a call of clear_cache
ClearBegin(t) ==
    /\ th[t].pc = "idle"
    /\ epoch + Cardinality({u \in Threads : th[u].pc \in {"clear_lock", "clear"}})
           < MaxClears
    /\ th' = [th EXCEPT ![t].pc = "clear_lock"]
    /\ UNCHANGED <<dirVars, fs, cache, seqVars, mutex, epoch, born>>

\* lib.rs:51-52: the clear, and the return
Clear(t) ==
    /\ th[t].pc = "clear"
    /\ cache' = EmptyCache
    /\ born' = EmptyCache
    /\ epoch' = epoch + 1
    /\ mutex' = NoThread
    /\ th' = [th EXCEPT ![t] = Idle]
    /\ UNCHANGED <<dirVars, fs, seqVars>>

NextThreads ==
    \E t \in Threads :
        \/ \E f1 \in Paths, f2 \in Paths, shallow \in BOOLEAN : CmpBegin(t, f1, f2, shallow)
        \/ Lock(t)
        \/ Get(t)
        \/ \E fault \in Faults : Read(t, fault)
        \/ CheckLen(t)
        \/ Sweep(t)
        \/ Put(t)
        \/ ClearBegin(t)
        \/ Clear(t)

SpecThreads == InitThreads /\ [][NextThreads]_vars

\* C5: in every interleaving of concurrent cmp calls no insert is lost: a
\* step removes entries from the cache only if it is the clear of an
\* explicit clear_cache call, or the clear of a sweep taken while the cache
\* holds more than MAX_CACHE_SIZE entries.
C5_NoLostInsert ==
    [][(\E k \in DOMAIN cache : k \notin DOMAIN cache')
           => \E t \in Threads :
                  \/ th[t].pc = "clear"
                  \/ th[t].pc = "sweep" /\ CacheLen(cache) > MAX_CACHE_SIZE]_vars

\* C6: clear_cache forces revalidation, also with cmp calls in flight: a
\* call of cmp that hits the cache is not handed an outcome computed from
\* content read before a clear_cache that had returned when the call
\* started.
C6_ClearForcesRevalidation ==
    [][\A t \in Threads :
           (th[t].pc = "get" /\ th[t].key \in DOMAIN cache /\ th'[t].pc = "idle")
               => born[th[t].key] >= th[t].startEpoch]_vars

(***************************************************************************)
(* The directory comparison, lib.rs:147-343.  A path is <<directory, name>>;*)
(* fs holds the entries, tree the listing of each directory.  An entry     *)
(* that is listed and cannot be stat'ed is a dangling symbolic link: stat  *)
(* follows links (lib.rs:29).                                              *)
(***************************************************************************)
DEFAULT_IGNORES == {"RCS", "CVS", "tags", ".git", ".hg", ".bzr", "_darcs", "__pycache__"}
CURDIR == "."
PARDIR == ".."

Dirs == {"left", "right"}
\* a name whose bytes are not valid UTF-8
NonUtf8 == "\\377"
\* the names of the entries, in the order of sort()
NameOrder == <<"RCS", "f", "g", "h">>
Names == {NameOrder[i] : i \in 1..Len(NameOrder)}
DirPaths == Dirs \X (Names \cup {NonUtf8})
\* the orders in which read_dir hands out the entries of a directory
ReadDirOrders == {<<"g", NonUtf8, "RCS", "h", "f">>, <<"f", "h", NonUtf8, "g", "RCS">>}
\* the names that cmpfiles may fail on, and how
FileNames == {"f"}
DirFaults == {"none", "open1", "read2"}

join(dir, x) == <<dir, x>>
file_name(path) == path[2]
strip_prefix(path, dir) == path[2]
to_str(name) == [some |-> name # NonUtf8, val |-> name]
contains(list, x) == \E i \in 1..Len(list) : list[i] = x
Rank(name) == CHOOSE i \in 1..Len(NameOrder) : NameOrder[i] = name

\* Path::read_dir, lib.rs:248-249
read_dir(tr, dir, order) ==
    IF tr[dir].listable
    THEN LET listed == SelectSeq(order, LAMBDA n : n \in tr[dir].names)
         IN  [ok |-> TRUE,
              entries |-> [i \in 1..Len(listed) |-> join(dir, listed[i])]]
    ELSE [ok |-> FALSE, entries |-> <<>>]

\* Vec::sort on the paths of one directory: by name
RECURSIVE sort(_)
sort(list) ==
    IF list = <<>> THEN <<>>
    ELSE LET rest == sort(Tail(list))
             x == Head(list)
             before == SelectSeq(rest, LAMBDA p : Rank(file_name(p)) < Rank(file_name(x)))
             after == SelectSeq(rest, LAMBDA p : ~(Rank(file_name(p)) < Rank(file_name(x))))
         IN  before \o <<x>> \o after

\* mutant: the ignore filter tests the hide list
NotIgnored_hide(path) == file_name(path) \notin {CURDIR, PARDIR}
\* lib.rs:251-252
NotIgnored(path) == file_name(path) \notin DEFAULT_IGNORES
NotHidden(path) == file_name(path) \notin {CURDIR, PARDIR}

\* lib.rs:247-255 (and 256-264): the filtered and sorted listing; read_dir's
\* unwrap panics when the directory cannot be listed, to_str's unwrap when
\* a name is not UTF-8
list_full(tr, dir, order) ==
    LET rd == read_dir(tr, dir, order)
    IN  IF ~rd.ok THEN [ok |-> FALSE, list |-> <<>>]
        ELSE IF \E i \in 1..Len(rd.entries) : ~to_str(file_name(rd.entries[i])).some
        THEN [ok |-> FALSE, list |-> <<>>]
        ELSE [ok |-> TRUE,
              list |-> sort(SelectSeq(SelectSeq(rd.entries, NotIgnored), NotHidden))]

\* lib.rs:265-272
names_of(list, dir) == [i \in 1..Len(list) |-> strip_prefix(list[i], dir)]
\* lib.rs:273-277
common_of(left_names, right_names) ==
    SelectSeq(left_names, LAMBDA ln : contains(right_names, ln))
\* mutant: the names that are in common are kept, as filter() of
\* lib.rs:360-366 does
only_of_kept(names, common) == SelectSeq(names, LAMBDA name : contains(common, name))
\* lib.rs:278-287
only_of(names, common) == SelectSeq(names, LAMBDA name : ~contains(common, name))

\* the three lists of the loop of lib.rs:288-312
NoCommon == [common_dirs |-> <<>>, common_files |-> <<>>, common_funny |-> <<>>]
push(acc, field, x) == [acc EXCEPT ![field] = Append(@, x)]

\* mutant: a common name that cannot be stat'ed is left out
classify_skip_unstatable(acc, disk, left, right, x) ==
    LET left_stat == stat(disk, join(left, x))
        right_stat == stat(disk, join(right, x))
    IN  IF left_stat.ok /\ right_stat.ok
        THEN IF S_IFMT(left_stat.st_mode) # S_IFMT(right_stat.st_mode)
             THEN push(acc, "common_funny", x)
             ELSE IF S_ISDIR(S_IFMT(left_stat.st_mode)) THEN push(acc, "common_dirs", x)
             ELSE IF S_ISREG(S_IFMT(left_stat.st_mode)) THEN push(acc, "common_files", x)
             ELSE push(acc, "common_funny", x)
        ELSE acc

\* mutant: the type of the left side decides alone
classify_left_type_only(acc, disk, left, right, x) ==
    LET left_stat == stat(disk, join(left, x))
        right_stat == stat(disk, join(right, x))
    IN  IF left_stat.ok /\ right_stat.ok
        THEN IF S_ISDIR(S_IFMT(left_stat.st_mode)) THEN push(acc, "common_dirs", x)
             ELSE IF S_ISREG(S_IFMT(left_stat.st_mode)) THEN push(acc, "common_files", x)
             ELSE push(acc, "common_funny", x)
        ELSE push(acc, "common_funny", x)

\* lib.rs:292-311: one turn of the loop
classify(acc, disk, left, right, x) ==
    LET left_stat == stat(disk, join(left, x))
        right_stat == stat(disk, join(right, x))
    IN  IF left_stat.ok /\ right_stat.ok
        THEN LET left_type == S_IFMT(left_stat.st_mode)
                 right_type == S_IFMT(right_stat.st_mode)
             IN  IF left_type # right_type THEN push(acc, "common_funny", x)
                 ELSE IF S_ISDIR(left_type) THEN push(acc, "common_dirs", x)
                 ELSE IF S_ISREG(left_type) THEN push(acc, "common_files", x)
                 ELSE push(acc, "common_funny", x)
        ELSE push(acc, "common_funny", x)

\* lib.rs:291-312
RECURSIVE classify_loop(_, _, _, _, _)
classify_loop(acc, disk, left, right, common) ==
    IF common = <<>> THEN acc
    ELSE classify_loop(classify(acc, disk, left, right, Head(common)),
                       disk, left, right, Tail(common))

\* one call of cmp by cmpfiles, for the record
Called(acc, x, r) == [acc EXCEPT !.calls = Append(@, [name |-> x, ret |-> r.ret,
                                                       reads |-> r.reads])]

\* mutant: the first error of cmp ends the loop
RECURSIVE cmpfiles_loop_abort(_, _, _, _, _, _, _)
cmpfiles_loop_abort(acc, disk, dir1, dir2, common, shallow, faults) ==
    IF common = <<>> THEN acc
    ELSE LET x == Head(common)
             r == cmp(disk, acc.cache, join(dir1, x), join(dir2, x), shallow,
                      IF x \in DOMAIN faults THEN faults[x] ELSE "none")
             field == IF r.ret.val THEN "same" ELSE "diff"
         IN  IF ~r.ret.ok THEN Called(acc, x, r)
             ELSE cmpfiles_loop_abort(
                      [Called(push(acc, field, x), x, r) EXCEPT !.cache = r.cache],
                      disk, dir1, dir2, Tail(common), shallow, faults)

\* lib.rs:159-171: the loop of cmpfiles; faults names the I/O error that
\* cmp meets on each name
RECURSIVE cmpfiles_loop(_, _, _, _, _, _, _)
cmpfiles_loop(acc, disk, dir1, dir2, common, shallow, faults) ==
    IF common = <<>> THEN acc
    ELSE LET x == Head(common)
             r == cmp(disk, acc.cache, join(dir1, x), join(dir2, x), shallow,
                      IF x \in DOMAIN faults THEN faults[x] ELSE "none")
             field == IF ~r.ret.ok THEN "funny"
                      ELSE IF r.ret.val THEN "same" ELSE "diff"
         IN  cmpfiles_loop([Called(push(acc, field, x), x, r) EXCEPT !.cache = r.cache],
                           disk, dir1, dir2, Tail(common), shallow, faults)

\* lib.rs:147-172
cmpfiles(disk, c, dir1, dir2, common, shallow, faults) ==
    cmpfiles_loop([same |-> <<>>, diff |-> <<>>, funny |-> <<>>, cache |-> c,
                   calls |-> <<>>],
                  disk, dir1, dir2, common, shallow, faults)

Panicked == [NoDirCmp EXCEPT !.status = "panic"]

\* lib.rs:220-343; the call yields its DirCmp and the cache it leaves
DirCmp_new(disk, tr, c, left, right, lorder, rorder, faults) ==
    LET left_list_full == list_full(tr, left, lorder)
        right_list_full == list_full(tr, right, rorder)
        left_names == names_of(left_list_full.list, left)
        right_names == names_of(right_list_full.list, right)
        common == common_of(left_names, right_names)
        lists == classify_loop(NoCommon, disk, left, right, common)
        xx == cmpfiles(disk, c, left, right, lists.common_files, TRUE, faults)
    IN  IF ~left_list_full.ok \/ ~right_list_full.ok
        THEN [dc |-> Panicked, cache |-> c, calls |-> <<>>]
        ELSE [dc |-> [status |-> "ok",
                      left_list |-> left_list_full.list,
                      right_list |-> right_list_full.list,
                      common |-> common,
                      left_only |-> only_of(left_names, common),
                      right_only |-> only_of(right_names, common),
                      common_dirs |-> lists.common_dirs,
                      common_files |-> lists.common_files,
                      common_funny |-> lists.common_funny,
                      same_files |-> xx.same,
                      diff_files |-> xx.diff,
                      funny_files |-> xx.funny],
              cache |-> xx.cache, calls |-> xx.calls]

(***************************************************************************)
(* The program that compares two directories.  A slot is what a directory  *)
(* holds under one name: nothing, a dangling link, or an entry.            *)
(***************************************************************************)
Gone == [listed |-> FALSE, entry |-> Missing]
Dangling == [listed |-> TRUE, entry |-> Missing]
Present(e) == [listed |-> TRUE, entry |-> e]
RegularSlots ==
    {Present(File(RegMode, d, t)) : d \in {<<0>>, <<1>>}, t \in Times}
        \cup {Present(File(RegMode, <<0, 0>>, 0))}
PlainSlots == {Gone, Present(File(RegMode, <<0>>, 0)), Present(File(DirMode, <<>>, 0))}

\* the slots of each path, in the order of PathOrder
PathOrder ==
    <<join("left", "f"), join("right", "f"), join("left", "g"), join("right", "g"),
      join("left", "h"), join("right", "h"), join("left", "RCS"), join("right", "RCS"),
      join("left", NonUtf8), join("right", NonUtf8)>>
LayoutOf(t) ==
    [p \in DirPaths |-> t[CHOOSE i \in 1..Len(PathOrder) : PathOrder[i] = p]]
PlainLayouts ==
    {LayoutOf(t) : t \in
        (RegularSlots \cup {Gone, Present(File(DirMode, <<>>, 0))})
        \X (PlainSlots \cup {Dangling})
        \X PlainSlots \X (PlainSlots \ {Gone})
        \X {Dangling, Present(File(FifoMode, <<>>, 0))}
        \X {Dangling, Present(File(FifoMode, <<>>, 0))}
        \X {Gone, Present(File(RegMode, <<>>, 0))}
        \X {Gone, Present(File(RegMode, <<>>, 0))}
        \X {Gone} \X {Gone}}
\* layouts with names that are not UTF-8, for directories that may also be
\* unlistable
OddLayouts ==
    {LayoutOf(t) : t \in
        {Present(File(RegMode, <<0>>, 0))} \X {Present(File(RegMode, <<0>>, 0))}
        \X {Gone} \X {Gone} \X {Gone} \X {Dangling} \X {Gone} \X {Gone}
        \X {Gone, Present(File(RegMode, <<>>, 0))}
        \X {Gone, Present(File(RegMode, <<>>, 0))}}

InitDirs(lay, unlistable) ==
    /\ fs = [p \in DirPaths |-> lay[p].entry]
    /\ tree = [d \in Dirs |->
                  [listable |-> d \notin unlistable,
                   names |-> {n \in Names \cup {NonUtf8} : lay[join(d, n)].listed}]]

InitDir ==
    /\ \/ \E lay \in PlainLayouts : InitDirs(lay, {})
       \/ \E lay \in OddLayouts, unlistable \in SUBSET Dirs : InitDirs(lay, unlistable)
    /\ cache = EmptyCache
    /\ last = NoCall
    /\ seen = EmptyCache
    /\ dc = NoDirCmp
    /\ InitConc

\* one call of DirCmp::new("left", "right")
DirCmpNew(lorder, rorder, faults) ==
    LET r == DirCmp_new(fs, tree, cache, "left", "right", lorder, rorder, faults)
    IN  /\ dc' = r.dc
        /\ cache' = r.cache
        /\ last' = [NoCall EXCEPT !.op = "DirCmp::new", !.lenBefore = CacheLen(cache),
                                  !.changed = (r.cache # cache), !.calls = r.calls]
        /\ UNCHANGED <<fs, tree, seen, concVars>>

\* the environment rewrites or touches the regular file left/f
DirMutate(slot) ==
    /\ Present(fs[join("left", "f")]) \in RegularSlots
    /\ slot.entry # fs[join("left", "f")]
    /\ fs' = [fs EXCEPT ![join("left", "f")] = slot.entry]
    /\ last' = [NoCall EXCEPT !.op = "env"]
    /\ UNCHANGED <<cache, seen, concVars, dirVars>>

NextDir ==
    \/ \E lorder \in ReadDirOrders, rorder \in ReadDirOrders,
          faults \in [FileNames -> DirFaults] : DirCmpNew(lorder, rorder, faults)
    \/ ClearCache
    \/ \E slot \in RegularSlots : DirMutate(slot)

SpecDir == InitDir /\ [][NextDir]_vars

(***************************************************************************)
(* Properties of the directory comparison.                                 *)
(***************************************************************************)
Range(list) == {list[i] : i \in 1..Len(list)}
Count(list, x) == Cardinality({i \in 1..Len(list) : list[i] = x})
Built == dc.status = "ok"

\* C10: the DirCmp that DirCmp::new builds has common_dirs, common_files and
\* common_funny pairwise disjoint, with union exactly common: every common
\* name is in exactly one of the three lists, once, whatever stat says of
\* it on each side.
C10_CommonPartition ==
    Built =>
        /\ Range(dc.common_dirs) \cup Range(dc.common_files) \cup Range(dc.common_funny)
               = Range(dc.common)
        /\ Range(dc.common_dirs) \cap Range(dc.common_files) = {}
        /\ Range(dc.common_dirs) \cap Range(dc.common_funny) = {}
        /\ Range(dc.common_files) \cap Range(dc.common_funny) = {}
        /\ \A x \in Range(dc.common) :
               Count(dc.common_dirs, x) + Count(dc.common_files, x)
                   + Count(dc.common_funny, x) = 1

\* C10 witness: a DirCmp with a common directory, a common file and a
\* funny common name that cannot be stat'ed on the right.
C10_Witness ==
    /\ Built
    /\ dc.common_dirs # <<>> /\ dc.common_files # <<>>
    /\ \E x \in Range(dc.common_funny) : ~stat(fs, join("right", x)).ok

\* the results of the calls of cmp that the last DirCmp::new made for x
Returned(x) == {last.calls[i].ret : i \in {j \in 1..Len(last.calls) : last.calls[j].name = x}}
DirSigNow(d, x) == Triple(stat(fs, join(d, x)))

\* C11: same_files, diff_files and funny_files are pairwise disjoint with
\* union exactly common_files; cmpfiles calls cmp once for each name of
\* common_files, and the name is in same_files iff cmp returned true, in
\* diff_files iff it returned false, in funny_files iff it returned an
\* error, whatever cmp returned for the names before it.  In particular two
\* regular files with equal signatures are the same, and two of different
\* sizes differ.
C11_FilesPartition ==
    (Built /\ last.op = "DirCmp::new") =>
        /\ Range(dc.same_files) \cup Range(dc.diff_files) \cup Range(dc.funny_files)
               = Range(dc.common_files)
        /\ Range(dc.same_files) \cap Range(dc.diff_files) = {}
        /\ Range(dc.same_files) \cap Range(dc.funny_files) = {}
        /\ Range(dc.diff_files) \cap Range(dc.funny_files) = {}
        /\ [i \in 1..Len(last.calls) |-> last.calls[i].name] = dc.common_files
        /\ \A x \in Range(dc.common_files) :
               /\ Count(dc.same_files, x) + Count(dc.diff_files, x)
                      + Count(dc.funny_files, x) = 1
               /\ x \in Range(dc.same_files) <=> Returned(x) = {Ok(TRUE)}
               /\ x \in Range(dc.diff_files) <=> Returned(x) = {Ok(FALSE)}
               /\ x \in Range(dc.funny_files) <=> Returned(x) = {Err}
               /\ DirSigNow("left", x) = DirSigNow("right", x)
                      => x \in Range(dc.same_files)
               /\ DirSigNow("left", x)[2] # DirSigNow("right", x)[2]
                      => x \in Range(dc.diff_files)

\* C11 witness: cmp failed on the first common file, and the one after it
\* is classified as the same.
C11_Witness ==
    /\ Built /\ last.op = "DirCmp::new"
    /\ Len(dc.common_files) = 2
    /\ dc.funny_files = <<dc.common_files[1]>>
    /\ dc.same_files = <<dc.common_files[2]>>

\* the file type bits of an entry (mode & 0o170000, in units of 0o10000)
\* that stat can reach, following links; 4 is a directory, 8 a regular file
Statable(d, x) == fs[join(d, x)].exists
TypeBits(d, x) == (fs[join(d, x)].st_mode \div 4096) % 16
BothStatable(x) == Statable("left", x) /\ Statable("right", x)
SameType(x) == BothStatable(x) /\ TypeBits("left", x) = TypeBits("right", x)

\* C12: DirCmp::new classifies each name of common by the stat of both
\* sides: common_dirs iff both are directories, common_files iff both are
\* regular files, common_funny iff a stat fails, the type bits differ, or
\* the common type is neither; a failing stat does not end the
\* classification.
C12_Classification ==
    (Built /\ last.op = "DirCmp::new") =>
        \A x \in Range(dc.common) :
            /\ x \in Range(dc.common_dirs) <=> (SameType(x) /\ TypeBits("left", x) = 4)
            /\ x \in Range(dc.common_files) <=> (SameType(x) /\ TypeBits("left", x) = 8)
            /\ x \in Range(dc.common_funny)
                   <=> \/ ~Statable("left", x) \/ ~Statable("right", x)
                       \/ ~SameType(x)
                       \/ TypeBits("left", x) \notin {4, 8}

\* C12 witness: a common name that cannot be stat'ed is funny, the common
\* directory after it is classified, a fifo on both sides is funny, and so
\* is a regular file that faces a directory.
C12_Witness ==
    /\ Built /\ last.op = "DirCmp::new"
    /\ \E i \in 1..Len(dc.common) : \E j \in 1..Len(dc.common) :
           /\ i < j
           /\ ~BothStatable(dc.common[i]) /\ dc.common[i] \in Range(dc.common_funny)
           /\ dc.common[j] \in Range(dc.common_dirs)
    /\ \E x \in Range(dc.common_funny) : SameType(x) /\ TypeBits("left", x) = 1

\* the names that a directory lists, less the ignored and the hidden ones
Filtered(d) == tree[d].names \ (DEFAULT_IGNORES \cup {CURDIR, PARDIR})
NoRepeat(list) == Cardinality(Range(list)) = Len(list)

\* C13: common holds exactly the names of both filtered listings,
\* left_only the names of the left listing that are not in common,
\* right_only those of the right listing; the three are pairwise disjoint
\* and hold no name twice.
C13_CommonAndOnly ==
    Built =>
        /\ Range(dc.common) = Filtered("left") \cap Filtered("right")
        /\ Range(dc.left_only) = Filtered("left") \ Filtered("right")
        /\ Range(dc.right_only) = Filtered("right") \ Filtered("left")
        /\ Range(dc.left_only) = {file_name(p) : p \in Range(dc.left_list)} \ Range(dc.common)
        /\ Range(dc.right_only) = {file_name(p) : p \in Range(dc.right_list)} \ Range(dc.common)
        /\ Range(dc.common) \cap Range(dc.left_only) = {}
        /\ Range(dc.common) \cap Range(dc.right_only) = {}
        /\ Range(dc.left_only) \cap Range(dc.right_only) = {}
        /\ NoRepeat(dc.common) /\ NoRepeat(dc.left_only) /\ NoRepeat(dc.right_only)

\* C13 witness: a DirCmp with common names, a name of the left directory
\* only and a name of the right directory only.
C13_Witness ==
    /\ Built
    /\ dc.common # <<>> /\ dc.left_only # <<>> /\ dc.right_only # <<>>
    /\ \E x \in Range(dc.right_only) : x \notin tree["left"].names

Skipped == DEFAULT_IGNORES \cup {CURDIR, PARDIR}
Sorted(list) ==
    \A i \in 1..Len(list) : \A j \in 1..Len(list) :
        i < j => Rank(file_name(list[i])) < Rank(file_name(list[j]))
NameLists ==
    {dc.common, dc.left_only, dc.right_only, dc.common_dirs, dc.common_files,
     dc.common_funny, dc.same_files, dc.diff_files, dc.funny_files}

\* C14: no ignored and no hidden name is in left_list, right_list, common,
\* left_only, right_only or a list made from them, also when only one of
\* the directories has an entry of that name; left_list holds the entries
\* of the left directory and right_list those of the right one, both
\* sorted by name.
C14_IgnoredAndSorted ==
    Built =>
        /\ \A p \in Range(dc.left_list) \cup Range(dc.right_list) :
               file_name(p) \notin Skipped
        /\ \A list \in NameLists : Range(list) \cap Skipped = {}
        /\ Range(dc.left_list) = {join("left", n) : n \in tree["left"].names \ Skipped}
        /\ Range(dc.right_list) = {join("right", n) : n \in tree["right"].names \ Skipped}
        /\ Sorted(dc.left_list) /\ Sorted(dc.right_list)

\* C14 witness: the left directory alone has an entry with an ignored
\* name, beside two entries that are listed; the right directory lists
\* three.
C14_Witness ==
    /\ Built
    /\ \E n \in DEFAULT_IGNORES : n \in tree["left"].names /\ n \notin tree["right"].names
    /\ Len(dc.left_list) = 2 /\ Len(dc.right_list) = 3

\* C15: when a directory cannot be listed, DirCmp::new fails with an I/O
\* error that it returns to its caller; it builds no DirCmp and does not
\* panic.
C15_UnlistableIsError ==
    (last.op = "DirCmp::new" /\ \E d \in Dirs : ~tree[d].listable)
        => dc.status = "error"

(***************************************************************************)
(* The single-threaded program on files that fail: a call of cmp may meet  *)
(* an I/O error when it opens or first reads a file.  Path b is one        *)
(* regular file; path a is a copy of it, a rewritten and touched copy, or  *)
(* missing.                                                                *)
(***************************************************************************)
ErrFiles ==
    {Missing, File(RegMode, <<0, 0, 0>>, 0), File(RegMode, <<0, 0, 1>>, 1)}

InitErr ==
    /\ fs \in {[p \in Paths |-> IF p = "a" THEN st ELSE File(RegMode, <<0, 0, 0>>, 0)] :
                  st \in ErrFiles}
    /\ cache = EmptyCache
    /\ last = NoCall
    /\ seen = EmptyCache
    /\ InitConc
    /\ InitNoDirs

NextErr ==
    \/ \E f1 \in Paths, f2 \in Paths, shallow \in BOOLEAN, fault \in Faults :
           Cmp(f1, f2, shallow, fault)
    \/ ClearCache
    \/ \E st \in ErrFiles : FsMutate("a", st)

SpecErr == InitErr /\ [][NextErr]_vars

StatFails == ~fs[last.f1].exists \/ ~fs[last.f2].exists
\* the call reached the content comparison and met its I/O error there
ContentFails == last.fault # "none" /\ last.lookup /\ ~last.hit
\* the same call again, on files that do not fail
Retry == cmp(fs, cache, last.f1, last.f2, last.shallow, "none")

\* C16: cmp returns an I/O error, and no boolean, when the stat of a path
\* fails or when opening or reading a file fails in the content
\* comparison, and only then; such a call leaves the cache as it was, with
\* no insert and no sweep, and the next call for the same key misses the
\* cache and compares the content.
C16_ErrorsLeaveCache ==
    LastIsCmp =>
        /\ StatFails => (last.ret = Err /\ Untouched)
        /\ ContentFails => last.ret = Err
        /\ ~last.ret.ok =>
               /\ last.ret = Err
               /\ StatFails \/ ContentFails
               /\ ~last.inserted /\ ~last.swept /\ ~last.changed
               /\ CacheLen(cache) = last.lenBefore
        /\ (~last.ret.ok /\ ~StatFails) =>
               /\ KeyNow \notin DOMAIN cache
               /\ Retry.ret.ok /\ Retry.lookup /\ ~Retry.hit
               /\ Retry.opens = 2 /\ Retry.reads >= 2

\* C16 witness: a read failed in a call that missed a cache holding more
\* than MAX_CACHE_SIZE entries.
C16_Witness ==
    /\ LastIsCmp /\ last.ret = Err /\ last.fault = "read2" /\ last.reads = 2
    /\ CacheLen(cache) = MAX_CACHE_SIZE + 1

(***************************************************************************)
(* The multi-threaded program under fair scheduling: a thread that waits   *)
(* for the Mutex gets it if it is free again and again, and a thread that  *)
(* can take its next step takes it.                                        *)
(***************************************************************************)
\* the steps of a call after its start, but for lock()
Step(t) ==
    \/ Get(t)
    \/ \E fault \in Faults : Read(t, fault)
    \/ CheckLen(t)
    \/ Sweep(t)
    \/ Put(t)
    \/ Clear(t)

Fair == \A t \in Threads : SF_vars(Lock(t)) /\ WF_vars(Step(t))

\* two files of one size that differ in content and in modification time
InitFair ==
    /\ InitThreads
    /\ fs["a"] # fs["b"]

SpecThreadsFair == InitFair /\ [][NextThreads]_vars /\ Fair

HoldPcs == {"get", "len", "sweep", "put", "clear"}
CanStep(t) ==
    \/ th[t].pc \in HoldPcs
    \/ th[t].pc = "read"
    \/ th[t].pc \in LockPcs /\ mutex = NoThread

====
